---- MODULE Spec2Model ----
(***************************************************************************)
(* Model of the call-session audio-stream processor of the voice assistant *)
(* backend (src/backend/server.ts): the per-connection ClientState, the    *)
(* CallSession and AudioStreamProcessor objects it points to, the message  *)
(* handlers of the WebSocket connection, and the asynchronous response     *)
(* pipelines (transcribe -> complete -> synthesize) the handlers start.    *)
(*                                                                         *)
(* Node runs every handler to its next await without interleaving, so one  *)
(* action is one handler run up to its first await, or one continuation    *)
(* of a pipeline from the await it was suspended at up to the next one.    *)
(*                                                                         *)
(* Numbers: the code computes in IEEE doubles.  The model computes in      *)
(* fixed point, in units of 10^-6 ("micro"), rounding down; NaN is the     *)
(* value NaN below and every comparison with it is false, as in the code.  *)
(***************************************************************************)
EXTENDS Integers, Sequences, FiniteSets, TLC

----------------------------------------------------------------------------
(* Program constants                                                       *)

maxBufferSize == 30
maxEnergyHistorySize == 50
centerValue == 128
MinAnalysisSamples == 100
MinThresholdSamples == 10
LowWatermark == 5
HighWatermark == 8
HeartbeatIntervalMs == 5000
HeartbeatTimeoutMs == 10000

Micro == 1000 * 1000
NaN == 0 - 1

energyThreshold == 50 * 1000          \* 0.05
minThreshold == 3 * 1000              \* 0.003
maxThreshold == 20 * 1000             \* 0.02

----------------------------------------------------------------------------
(* Arithmetic helpers                                                      *)

Abs(x) == IF x < 0 THEN 0 - x ELSE x
Min(a, b) == IF a < b THEN a ELSE b
Max(a, b) == IF a > b THEN a ELSE b

\* the sum of s[lo..hi], by halves
RECURSIVE SumRange(_, _, _)
SumRange(s, lo, hi) ==
    IF lo > hi THEN 0
    ELSE IF lo = hi THEN s[lo]
    ELSE LET mid == (lo + hi) \div 2
         IN  SumRange(s, lo, mid) + SumRange(s, mid + 1, hi)

SumSeq(s) == SumRange(s, 1, Len(s))

\* floor(sqrt(v)) by bisection on lo..hi, lo*lo <= v < (hi+1)*(hi+1)
RECURSIVE SqrtBetween(_, _, _)
SqrtBetween(v, lo, hi) ==
    IF lo >= hi THEN lo
    ELSE LET mid == (lo + hi + 1) \div 2
         IN  IF mid * mid <= v THEN SqrtBetween(v, mid, hi)
                               ELSE SqrtBetween(v, lo, mid - 1)

ISqrt(v) == SqrtBetween(v, 0, 46340)

\* audioData[i] of the code (0-based)
At(d, i) == d[i + 1]

\* number of loop iterations of  for (i = from; i < n; i += stride)
LoopCount(from, n, stride) ==
    IF n <= from THEN 0 ELSE ((n - 1 - from) \div stride) + 1

\* sum over that loop of |d[i] - d[i - lag]|^2
SumSqDiff(d, lag, from, stride) ==
    SumSeq([k \in 1..LoopCount(from, Len(d), stride) |->
              LET i == from + (k - 1) * stride
                  diff == Abs(At(d, i) - At(d, i - lag))
              IN  diff * diff])

SumAbsDiff(d, lag, from, stride) ==
    SumSeq([k \in 1..LoopCount(from, Len(d), stride) |->
              LET i == from + (k - 1) * stride
              IN  Abs(At(d, i) - At(d, i - lag))])

\* sqrt(num / den) / centerValue in micro units (num, den integers, den > 0)
RootMeanOver128(num, den) ==
    LET q == num \div den
        r == num % den
        scaled == q * 10000 + (r * 10000) \div den     \* (num/den) * 10^4
        root == ISqrt(scaled)                           \* sqrt(num/den) * 100
    IN  (root * 625) \div 8                             \* * 10^6 / (100 * 128)

----------------------------------------------------------------------------
(* Voice activity detection                                                *)

\* rms of detectVoiceActivity: sqrt(totalEnergy / length) / centerValue;
\* 0 / 0 for an empty buffer is NaN
RmsEnergy(audioData) ==
    IF Len(audioData) = 0 THEN NaN
    ELSE RootMeanOver128(
           SumSeq([k \in 1..Len(audioData) |->
                     LET distance == Abs(audioData[k] - centerValue)
                     IN  distance * distance]),
           Len(audioData))

\* an analysis that takes every buffer, whatever its length, for voice
analyzeAsVoice(audioData) ==
    [isLikelyVoice |-> TRUE, lowEnergy |-> 0, midEnergy |-> Micro,
     highEnergy |-> 0, voiceConfidence |-> Micro]

analyzeFrequencyCharacteristics(audioData) ==
    IF Len(audioData) < MinAnalysisSamples
    THEN [isLikelyVoice |-> FALSE, lowEnergy |-> 0, midEnergy |-> 0,
          highEnergy |-> 0, voiceConfidence |-> 0]
    ELSE
    LET sampleCount == Len(audioData)
        lowBandEnergy  == RootMeanOver128(3 * SumSqDiff(audioData, 20, 20, 3), sampleCount)
        midBandEnergy  == RootMeanOver128(2 * SumSqDiff(audioData, 8, 8, 2), sampleCount)
        highBandEnergy == RootMeanOver128(SumSqDiff(audioData, 1, 1, 1), sampleCount)
        totalEnergy == lowBandEnergy + midBandEnergy + highBandEnergy + 100   \* + 0.0001
        \* midBandScore = min(1, midBandRatio * 2); the energies are at most
        \* 2 * 10^6 micro, so the ratio is taken in units of 10^-3
        midBandScore == Min(Micro, ((2 * midBandEnergy * 1000) \div totalEnergy) * 1000)
        count == LoopCount(10, sampleCount, 10)
        sumDiffs == SumAbsDiff(audioData, 10, 10, 10)
        sumDiffsSq == SumSqDiff(audioData, 10, 10, 10)
        \* stdDevDiff = sqrt(sumDiffsSq/count - (sumDiffs/count)^2)
        \*            = sqrt(count*sumDiffsSq - sumDiffs^2) / count
        stdTimesCount10 == IF count > 0
                           THEN ISqrt((count * sumDiffsSq - sumDiffs * sumDiffs) * 100)
                           ELSE 0
        \* variationScore = min(1, (stdDevDiff / centerValue) * 10)
        variationScore == IF count > 0
                          THEN Min(Micro, (stdTimesCount10 * 15625) \div (2 * count))
                          ELSE 0
        voiceConfidence == (midBandScore * 6 + variationScore * 4) \div 10
    IN  [isLikelyVoice |-> voiceConfidence > 400000 /\ midBandEnergy > 100000,
         lowEnergy |-> lowBandEnergy, midEnergy |-> midBandEnergy,
         highEnergy |-> highBandEnergy, voiceConfidence |-> voiceConfidence]

\* a - b > 0 of the sort comparators and the > of the code: false on NaN
Gt(a, b) == a # NaN /\ b # NaN /\ a > b

\* an unstable sort: an element also moves left past those that compare equal
RECURSIVE InsertBeforeEqualKeys(_, _, _)
InsertBeforeEqualKeys(sorted, x, kx) ==
    IF sorted = <<>> THEN <<x>>
    ELSE LET last == sorted[Len(sorted)]
         IN  IF ~Gt(kx, last.key)
             THEN Append(InsertBeforeEqualKeys(SubSeq(sorted, 1, Len(sorted) - 1),
                                               x, kx), last)
             ELSE Append(sorted, x)

\* Array.prototype.sort((a, b) => key(a) - key(b)): a stable insertion sort;
\* an element moves left past those that compare greater
RECURSIVE InsertByKey(_, _, _)
InsertByKey(sorted, x, kx) ==
    IF sorted = <<>> THEN <<x>>
    ELSE LET last == sorted[Len(sorted)]
         IN  IF Gt(last.key, kx)
             THEN Append(InsertByKey(SubSeq(sorted, 1, Len(sorted) - 1), x, kx), last)
             ELSE Append(sorted, x)

RECURSIVE SortKeyed(_)
SortKeyed(s) ==
    IF s = <<>> THEN <<>>
    ELSE LET x == s[Len(s)]
         IN  InsertByKey(SortKeyed(SubSeq(s, 1, Len(s) - 1)), x, x.key)

SortNumbers(levels) ==
    LET keyed == SortKeyed([i \in 1..Len(levels) |-> [key |-> levels[i]]])
    IN  [i \in 1..Len(levels) |-> keyed[i].key]

adjustVADThreshold(recentEnergyLevels) ==
    IF Len(recentEnergyLevels) < MinThresholdSamples THEN energyThreshold
    ELSE
    LET sortedLevels == SortNumbers(recentEnergyLevels)
        noiseFloor == sortedLevels[(Len(sortedLevels) \div 4) + 1]
        medianEnergy == sortedLevels[(Len(sortedLevels) \div 2) + 1]
        dynamicThreshold ==
            IF noiseFloor = NaN \/ medianEnergy = NaN THEN NaN
            ELSE noiseFloor + ((medianEnergy - noiseFloor) \div 2)
    IN  IF dynamicThreshold = NaN THEN NaN
        ELSE Max(minThreshold, Min(maxThreshold, dynamicThreshold))

\* a rule that takes every level not below the threshold for speech
VoiceDecisionNotBelow(rms, currentThreshold, voiceConfidence) ==
    ~Gt(currentThreshold, rms)

\* a rule that looks at the energy alone
VoiceDecisionOnEnergy(rms, currentThreshold, voiceConfidence) ==
    Gt(rms, currentThreshold)

\* the two-path rule of detectVoiceActivity
VoiceDecision(rms, currentThreshold, voiceConfidence) ==
    \/ Gt(rms, currentThreshold) /\ voiceConfidence > 200000
    \/ /\ Gt(rms, IF currentThreshold = NaN THEN NaN ELSE (currentThreshold * 7) \div 10)
       /\ voiceConfidence > 500000

\* a push that drops the new level when the history is full
PushEnergyKeepingOldest(recentEnergyLevels, rms) ==
    IF Len(recentEnergyLevels) >= maxEnergyHistorySize THEN recentEnergyLevels
    ELSE Append(recentEnergyLevels, rms)

PushEnergy(recentEnergyLevels, rms) ==
    LET pushed == Append(recentEnergyLevels, rms)
    IN  IF Len(pushed) > maxEnergyHistorySize THEN Tail(pushed) ELSE pushed

----------------------------------------------------------------------------
(* Values                                                                  *)

null == 0

\* audio payloads a client sends: 100 unsigned 8-bit samples each
Silence == [i \in 1..MinAnalysisSamples |-> centerValue]
Speech == [i \in 1..MinAnalysisSamples |->
             IF ((i - 1) \div 8) % 2 = 0 THEN centerValue + 40 ELSE centerValue - 40]

\* a buffer of n samples at the midpoint value
SilentChunk(n) == [i \in 1..n |-> centerValue]

\* silent payloads around the length below which the spectrum is not analysed
SilentLengths ==
    [silence0 |-> 0, silence1 |-> 1, silence99 |-> MinAnalysisSamples - 1,
     silence100 |-> MinAnalysisSamples, silence200 |-> 2 * MinAnalysisSamples]

\* a faint voice-like payload: 625 samples, the first 256 swinging by 2
\* around the midpoint in runs of 8; rms = sqrt(1024 / 625) / 128 = 0.01
Murmur == [i \in 1..625 |->
             IF i > 256 THEN centerValue
             ELSE IF ((i - 1) \div 8) % 2 = 0 THEN centerValue + 2 ELSE centerValue - 2]

\* a loud payload without any variation: every sample 64 above the midpoint
Loud == [i \in 1..MinAnalysisSamples |-> centerValue + 64]

\* a loud payload one sample short of the analysis window: full-scale swings
ShortLoud == [i \in 1..(MinAnalysisSamples - 1) |-> IF i % 2 = 0 THEN 255 ELSE 0]

ChunkPayloads ==
    {Silence, Speech, Murmur, Loud, ShortLoud}
        \cup {SilentChunk(SilentLengths[n]) : n \in DOMAIN SilentLengths}

\* the payloads by name, as the client scenarios choose them
PayloadNames == {"silence", "speech"}
Payload(name) ==
    IF name = "silence" THEN Silence
    ELSE IF name = "speech" THEN Speech
    ELSE IF name = "murmur" THEN Murmur
    ELSE IF name = "loud" THEN Loud
    ELSE IF name = "short_loud" THEN ShortLoud
    ELSE SilentChunk(SilentLengths[name])

\* the analysis of the payloads above, computed once
PayloadAnalysis ==
    [d \in ChunkPayloads |->
        [rms |-> RmsEnergy(d), freqAnalysis |-> analyzeFrequencyCharacteristics(d)]]

AnalysisOf(audioData) ==
    IF audioData \in DOMAIN PayloadAnalysis THEN PayloadAnalysis[audioData]
    ELSE [rms |-> RmsEnergy(audioData),
          freqAnalysis |-> analyzeFrequencyCharacteristics(audioData)]

\* texts: what a service returned for task `of`, or a canned text (of = null)
Text(kind, of) == [kind |-> kind, of |-> of]
NoSpeechDetected == Text("No speech detected", null)
EmptyTranscription == Text("", null)
\* !transcription || transcription === 'No speech detected' || blank
NoMeaningfulTranscription == {NoSpeechDetected, EmptyTranscription}
\* an audioData field that is neither a base64 string nor a Buffer
NotAudio == <<0 - 1>>

FallbackTranscription == Text("I didn't catch that clearly.", null)
FallbackResponse == Text("I'm sorry, I couldn't hear you clearly.", null)

Message(type, requestId, body) == [type |-> type, requestId |-> requestId, body |-> body]

----------------------------------------------------------------------------
(* State                                                                   *)

VARIABLES
    clients,        \* TRUE while the clients Map holds this connection
    readyState,     \* ws.readyState: "OPEN", "CLOSING" or "CLOSED"
    clientState,    \* the connection's ClientState
    sessions,       \* the CallSession objects created so far, by identity
    processors,     \* the AudioStreamProcessor objects created so far
    abortSignals,   \* abortSignals[c]: AbortController c's signal is aborted
    timers,         \* the armed heartbeat intervals
    due,            \* due[k]: when interval k runs next (ms)
    now,            \* Date.now() (ms since the connection was accepted)
    tasks,          \* the response pipelines started so far, each at its await
    sent,           \* the messages sent to the client, in order
    env,            \* the messages the client may still send
    last            \* what ran last, and the pipelines an interrupt found in
                    \* their synthesis stage (for stating the properties)

progVars == <<clients, readyState, clientState, sessions, processors,
              abortSignals, timers, tasks, sent>>
vars == <<clients, readyState, clientState, sessions, processors,
          abortSignals, timers, tasks, sent, env, last, due, now>>

World ==
    [clients |-> clients, readyState |-> readyState, clientState |-> clientState,
     sessions |-> sessions, processors |-> processors,
     abortSignals |-> abortSignals, timers |-> timers, tasks |-> tasks,
     sent |-> sent, due |-> due, now |-> now]

Becomes(w) ==
    /\ clients' = w.clients
    /\ readyState' = w.readyState
    /\ clientState' = w.clientState
    /\ sessions' = w.sessions
    /\ processors' = w.processors
    /\ abortSignals' = w.abortSignals
    /\ timers' = w.timers
    /\ tasks' = w.tasks
    /\ sent' = w.sent
    /\ due' = w.due
    /\ now' = w.now

InitialClientState ==
    [isListening |-> FALSE, isProcessing |-> FALSE, currentRequestId |-> null,
     abortController |-> null, callSession |-> null, audioProcessor |-> null,
     heartbeatInterval |-> null, lastHeartbeat |-> 0]

InitWorld ==
    /\ clients = TRUE
    /\ readyState = "OPEN"
    /\ clientState = InitialClientState
    /\ sessions = <<>>
    /\ processors = <<>>
    /\ abortSignals = <<>>
    /\ timers = {}
    /\ due = <<>>
    /\ now = 0
    /\ tasks = <<>>
    /\ sent = <<Message("connection_established", null, <<>>)>>

----------------------------------------------------------------------------
(* CallSession                                                             *)

NewCallSession == [state |-> "IDLE", conversationHistory |-> <<>>]

activate(session) == [session EXCEPT !.state = "ACTIVE"]

end(session) == [session EXCEPT !.state = "ENDING"]

addUserMessage(session, text) ==
    [session EXCEPT !.conversationHistory =
        Append(@, [role |-> "user", content |-> text])]

addAIMessage(session, text) ==
    [session EXCEPT !.conversationHistory =
        Append(@, [role |-> "assistant", content |-> text])]

SystemPrompt == Text("You are a helpful voice assistant.", null)

\* a context that holds the system prompt and the latest message only
getLatestMessageForAI(session) ==
    <<[role |-> "system", content |-> SystemPrompt]>>
        \o SubSeq(session.conversationHistory, Len(session.conversationHistory),
                  Len(session.conversationHistory))

getContextForAI(session) ==
    <<[role |-> "system", content |-> SystemPrompt]>> \o session.conversationHistory

\* clientState.callSession && clientState.callSession.state === 'ACTIVE'
SessionActive(w) ==
    /\ w.clientState.callSession # null
    /\ w.sessions[w.clientState.callSession].state = "ACTIVE"

Send(w, msg) == [w EXCEPT !.sent = Append(@, msg)]

\* if (ws.readyState === WebSocket.OPEN) ws.send(...)
SendIfOpen(w, msg) == IF w.readyState = "OPEN" THEN Send(w, msg) ELSE w

----------------------------------------------------------------------------
(* AudioStreamProcessor                                                    *)

NewAudioStreamProcessor ==
    [audioChunks |-> <<>>, isProcessing |-> FALSE, vadActive |-> FALSE,
     recentEnergyLevels |-> <<>>]

\* the buffer left in arrival order: addChunk without its sort
KeepArrivalOrder(chunks) == chunks

\* this.audioChunks.sort((a, b) => a.sequence - b.sequence)
SortBySequence(chunks) ==
    LET keyed == SortKeyed([i \in 1..Len(chunks) |->
                              [key |-> chunks[i].sequence, chunk |-> chunks[i]]])
    IN  [i \in 1..Len(chunks) |-> keyed[i].chunk]

\* a limit that keeps the first maxBufferSize chunks: slice(0, maxBufferSize)
LimitBufferKeepingFirst(chunks) ==
    IF Len(chunks) > maxBufferSize THEN SubSeq(chunks, 1, maxBufferSize) ELSE chunks

\* this.audioChunks.slice(-this.maxBufferSize)
LimitBuffer(chunks) ==
    IF Len(chunks) > maxBufferSize
    THEN SubSeq(chunks, Len(chunks) - maxBufferSize + 1, Len(chunks))
    ELSE chunks

\* the first part of addChunk: push, sort, limit
BufferChunk(audioChunks, chunk, sequence, timestamp) ==
    LimitBuffer(SortBySequence(
        Append(audioChunks, [data |-> chunk, sequence |-> sequence,
                             timestamp |-> timestamp])))

\* chunk.data.copy(combinedBuffer, offset) for each chunk in buffer order
RECURSIVE CombineChunks(_)
CombineChunks(chunks) ==
    IF chunks = <<>> THEN <<>>
    ELSE Head(chunks).data \o CombineChunks(Tail(chunks))

\* a pipeline invocation suspended at an await; file is the temporary audio
\* file it wrote, flushed the timestamps of the chunks copied into it
NewTask(kind, p, requestId, file, flushed) ==
    [kind |-> kind, proc |-> p, requestId |-> requestId, pc |-> "transcribe",
     signal |-> null, file |-> file, flushed |-> flushed,
     transcription |-> Text("", null), response |-> Text("", null),
     context |-> <<>>]

\* the end of detectVoiceActivity: the decision, stored and reported
ReportVoiceActivity(w, p, rms, levels, currentThreshold, voiceConfidence) ==
    LET active == VoiceDecision(rms, currentThreshold, voiceConfidence)
    IN  SendIfOpen([w EXCEPT !.processors[p].recentEnergyLevels = levels,
                             !.processors[p].vadActive = active],
                   Message("vad_status", null,
                           [isSpeaking |-> active, audioLevel |-> rms,
                            threshold |-> currentThreshold]))

\* the dynamic threshold once ten energy levels are known
CurrentThreshold(levels) ==
    IF Len(levels) >= MinThresholdSamples
    THEN adjustVADThreshold(levels)
    ELSE energyThreshold

ClassifyWithHistory(w, p, analysis, levels) ==
    ReportVoiceActivity(w, p, analysis.rms, levels, CurrentThreshold(levels),
                        analysis.freqAnalysis.voiceConfidence)

ClassifyAnalysed(w, p, analysis) ==
    ClassifyWithHistory(w, p, analysis,
                        PushEnergy(w.processors[p].recentEnergyLevels, analysis.rms))

detectVoiceActivity(w, p, audioData) ==
    ClassifyAnalysed(w, p, AnalysisOf(audioData))

\* processAudioForTranscription without its check of the session state
processAudioWithoutSessionCheck(w, p) ==
    LET audioChunks == w.processors[p].audioChunks
        combinedBuffer == CombineChunks(audioChunks)
    IN  IF Len(audioChunks) = 0 THEN w
        ELSE IF Len(combinedBuffer) = 0
             THEN [w EXCEPT !.processors[p].audioChunks = <<>>]
        ELSE LET w1 == SendIfOpen(w, Message("processing_started", null, <<>>))
             IN  [w1 EXCEPT !.tasks =
                     Append(@, NewTask("stream", p, null, combinedBuffer,
                                       [i \in 1..Len(audioChunks) |->
                                          audioChunks[i].timestamp]))]

\* processAudioForTranscription up to its first await (transcribeAudio)
processAudioForTranscription(w, p) ==
    LET audioChunks == w.processors[p].audioChunks
        combinedBuffer == CombineChunks(audioChunks)
    IN  IF ~SessionActive(w) THEN w
        ELSE IF Len(audioChunks) = 0 THEN w
        ELSE IF Len(combinedBuffer) = 0
             THEN [w EXCEPT !.processors[p].audioChunks = <<>>]
        ELSE LET w1 == SendIfOpen(w, Message("processing_started", null, <<>>))
             IN  [w1 EXCEPT !.tasks =
                     Append(@, NewTask("stream", p, null, combinedBuffer,
                                       [i \in 1..Len(audioChunks) |->
                                          audioChunks[i].timestamp]))]

\* the flush condition without the forced flush at the high watermark
ShouldProcessOnSilenceOnly(length, vadActive) ==
    length >= LowWatermark /\ ~vadActive

\* the flush condition of processBuffer
ShouldProcess(length, vadActive) ==
    LET forceProcess == length >= HighWatermark
    IN  (length >= LowWatermark /\ ~vadActive) \/ forceProcess

\* the end of processBuffer: isProcessing is reset in the finally block,
\* which runs at once unless the pipeline that was started is awaited
AwaitPipeline(before, after, p) ==
    IF Len(after.tasks) > Len(before.tasks) THEN after
    ELSE [after EXCEPT !.processors[p].isProcessing = FALSE]

\* processBuffer after the classification of the latest chunk
ProcessIfReady(w, p) ==
    IF ShouldProcess(Len(w.processors[p].audioChunks), w.processors[p].vadActive)
    THEN AwaitPipeline(w, processAudioForTranscription(w, p), p)
    ELSE [w EXCEPT !.processors[p].isProcessing = FALSE]

\* processBuffer up to its first await
processBuffer(w, p) ==
    IF Len(w.processors[p].audioChunks) = 0 \/ w.processors[p].isProcessing THEN w
    ELSE LET latestChunk == w.processors[p].audioChunks[Len(w.processors[p].audioChunks)]
         IN  ProcessIfReady(
                 detectVoiceActivity([w EXCEPT !.processors[p].isProcessing = TRUE],
                                     p, latestChunk.data), p)

\* the end of addChunk
ProcessIfIdle(w, p) ==
    IF ~w.processors[p].isProcessing THEN processBuffer(w, p) ELSE w

addChunk(w, p, chunk, sequence, timestamp) ==
    ProcessIfIdle([w EXCEPT !.processors[p].audioChunks =
                      BufferChunk(@, chunk, sequence, timestamp)], p)

clearBuffer(processor) ==
    [processor EXCEPT !.audioChunks = <<>>, !.isProcessing = FALSE]

\* handleAudioComplete up to its first await (transcribeAudio)
handleAudioComplete(w, p, requestId, audioData) ==
    IF ~SessionActive(w) THEN w
    ELSE IF Len(audioData) = 0 THEN w
    ELSE LET w1 == SendIfOpen(w, Message("processing_started", requestId, <<>>))
         IN  [w1 EXCEPT !.tasks =
                 Append(@, NewTask("complete", p, requestId, audioData, <<>>))]

----------------------------------------------------------------------------
(* The response pipeline after its first await.  Both processAudioFor-     *)
(* Transcription (kind "stream") and handleAudioComplete (kind "complete") *)
(* run the same stages; they differ in the message types, in the           *)
(* requestId tag and in what their finally blocks reset.                   *)

ResponseType(kind) == IF kind = "stream" THEN "stream_response" ELSE "audio_response"
ErrorType(kind) == IF kind = "stream" THEN "stream_error" ELSE "audio_error"

\* the finally block of the pipeline alone, without that of processBuffer
FinallyOfPipelineOnly(w, t) ==
    LET task == w.tasks[t]
        w1 == [w EXCEPT !.tasks[t].pc = "done", !.tasks[t].file = <<>>]
    IN  IF task.kind = "stream"
        THEN [w1 EXCEPT !.processors[task.proc].audioChunks = <<>>]
        ELSE w1

\* the finally blocks: the stream pipeline clears the processor's buffer, and
\* processBuffer, which awaited it, resets isProcessing; both remove the file
Finally(w, t) ==
    LET task == w.tasks[t]
        w1 == [w EXCEPT !.tasks[t].pc = "done", !.tasks[t].file = <<>>]
    IN  IF task.kind = "stream"
        THEN [w1 EXCEPT !.processors[task.proc].audioChunks = <<>>,
                        !.processors[task.proc].isProcessing = FALSE]
        ELSE w1

\* a catch block after which nothing resets the processor
CatchWithoutFinally(w, t, error) ==
    [SendIfOpen(w, Message(ErrorType(w.tasks[t].kind), w.tasks[t].requestId, error))
        EXCEPT !.tasks[t].pc = "done", !.tasks[t].file = <<>>]

\* the catch block of the pipeline
Catch(w, t, error) ==
    Finally(SendIfOpen(w, Message(ErrorType(w.tasks[t].kind),
                                  w.tasks[t].requestId, error)), t)

\* this.clientState.callSession, read when the continuation runs
CurrentSession(w) == w.clientState.callSession

\* the continuation after transcribeAudio without the fallback branch
AfterTranscribeVerbatim(w, t, transcription) ==
    [w EXCEPT !.sessions[CurrentSession(w)] = addUserMessage(@, transcription),
              !.tasks[t].transcription = transcription,
              !.tasks[t].context =
                  getContextForAI(addUserMessage(w.sessions[CurrentSession(w)],
                                                 transcription)),
              !.tasks[t].signal = w.clientState.abortController,
              !.tasks[t].pc = "complete"]

\* continuation after  await transcribeAudio(filepath)
AfterTranscribe(w, t, transcription) ==
    LET cs == CurrentSession(w)
    IN  IF transcription \in NoMeaningfulTranscription
        THEN [w EXCEPT
                !.sessions[cs] = addAIMessage(addUserMessage(@, FallbackTranscription),
                                              FallbackResponse),
                !.tasks[t].transcription = FallbackTranscription,
                !.tasks[t].response = FallbackResponse,
                !.tasks[t].pc = "synthesize"]
        ELSE [w EXCEPT
                !.sessions[cs] = addUserMessage(@, transcription),
                !.tasks[t].transcription = transcription,
                !.tasks[t].context =
                    getContextForAI(addUserMessage(w.sessions[cs], transcription)),
                !.tasks[t].signal = w.clientState.abortController,
                !.tasks[t].pc = "complete"]

\* continuation after  await processWithGroqContext(...)
AfterComplete(w, t, response) ==
    [w EXCEPT !.sessions[CurrentSession(w)] = addAIMessage(@, response),
              !.tasks[t].response = response,
              !.tasks[t].pc = "synthesize"]

\* continuation after  await convertTextToSpeech(...)
AfterSynthesize(w, t, speechAudio) ==
    LET task == w.tasks[t]
    IN  Finally(SendIfOpen(w, Message(ResponseType(task.kind), task.requestId,
                                      [transcription |-> task.transcription,
                                       response |-> task.response,
                                       speechAudio |-> speechAudio])), t)

\* the abort signal handed to the completion call is set
SignalAborted(w, t) ==
    w.tasks[t].signal # null /\ w.abortSignals[w.tasks[t].signal]

----------------------------------------------------------------------------
(* Message handlers                                                        *)

\* call_start that re-activates the connection's session when there is one
callStartReusingSession(w) ==
    LET cs == w.clientState.callSession
        sid == IF cs # null THEN cs ELSE Len(w.sessions) + 1
        pid == Len(w.processors) + 1
        w1 == [w EXCEPT
                 !.sessions = IF cs # null
                              THEN [@ EXCEPT ![cs] = activate(@)]
                              ELSE Append(@, activate(NewCallSession)),
                 !.processors = Append(@, NewAudioStreamProcessor),
                 !.clientState.callSession = sid,
                 !.clientState.audioProcessor = pid,
                 !.clientState.lastHeartbeat = w.now,
                 !.clientState.heartbeatInterval = pid,
                 !.due = Append(@, w.now + HeartbeatIntervalMs),
                 !.timers = @ \cup {pid}]
    IN  Send(w1, Message("call_started", null, [sessionId |-> sid]))

callStart(w) ==
    LET sid == Len(w.sessions) + 1
        pid == Len(w.processors) + 1
        w1 == [w EXCEPT
                 !.sessions = Append(@, activate(NewCallSession)),
                 !.processors = Append(@, NewAudioStreamProcessor),
                 !.clientState.callSession = sid,
                 !.clientState.audioProcessor = pid,
                 !.clientState.lastHeartbeat = w.now,
                 !.clientState.heartbeatInterval = sid,
                 !.due = Append(@, w.now + HeartbeatIntervalMs),
                 !.timers = @ \cup {sid}]
    IN  Send(w1, Message("call_started", null, [sessionId |-> sid]))

callEnd(w) ==
    LET cs == w.clientState.callSession
        ap == w.clientState.audioProcessor
        hb == w.clientState.heartbeatInterval
        w1 == IF cs # null THEN [w EXCEPT !.sessions[cs] = end(@)] ELSE w
        w2 == IF ap # null
              THEN [w1 EXCEPT !.processors[ap] = clearBuffer(@),
                              !.clientState.audioProcessor = null]
              ELSE w1
        w3 == IF hb # null
              THEN [w2 EXCEPT !.timers = @ \ {hb},
                              !.clientState.heartbeatInterval = null]
              ELSE w2
    IN  Send(w3, Message("call_ended", null, <<>>))

\* case 'audio_chunk'
audioChunk(w, audioData, sequenceNumber, timestamp) ==
    IF ~SessionActive(w) THEN w
    ELSE IF w.clientState.audioProcessor = null THEN w
    ELSE IF audioData = NotAudio THEN w
    ELSE addChunk(w, w.clientState.audioProcessor, audioData, sequenceNumber, timestamp)

\* a handler that leaves the request in flight running
AbortNothing(w) == w

\* clientState.abortController.abort(), if there is a controller
Abort(w) ==
    IF w.clientState.abortController # null
    THEN [w EXCEPT !.abortSignals[w.clientState.abortController] = TRUE]
    ELSE w

handleAIInterrupt(w) ==
    LET w1 == [Abort(w) EXCEPT !.clientState.isProcessing = FALSE,
                               !.clientState.currentRequestId = null,
                               !.clientState.abortController = null]
    IN  Send(w1, Message("ai_interrupted", null, <<>>))

handleProcessingCancel(w) ==
    LET w1 == [Abort(w) EXCEPT !.clientState.isProcessing = FALSE,
                               !.clientState.currentRequestId = null,
                               !.clientState.abortController = null]
    IN  Send(w1, Message("processing_cancelled", null, <<>>))

\* case 'audio_complete'
audioComplete(w, requestId, audioData) ==
    LET abortController == Len(w.abortSignals) + 1
        w1 == [w EXCEPT !.abortSignals = Append(@, FALSE),
                        !.clientState.isProcessing = TRUE,
                        !.clientState.currentRequestId = requestId,
                        !.clientState.abortController = abortController]
    IN  IF w1.clientState.audioProcessor # null
        THEN handleAudioComplete(w1, w1.clientState.audioProcessor, requestId, audioData)
        ELSE w1

\* ws.close(): the closing handshake starts; 'close' is emitted later
wsClose(w) == IF w.readyState = "OPEN" THEN [w EXCEPT !.readyState = "CLOSING"] ELSE w

\* the callback of the heartbeat interval; it runs again an interval later
heartbeatTimer(w, k) ==
    LET w1 == [w EXCEPT !.due[k] = w.now + HeartbeatIntervalMs]
    IN  IF w.now - w.clientState.lastHeartbeat > HeartbeatTimeoutMs
        THEN wsClose(w1)
        ELSE SendIfOpen(w1, Message("heartbeat", null, [timestamp |-> w.now]))

\* case 'heartbeat_ack'
heartbeatAck(w) == [w EXCEPT !.clientState.lastHeartbeat = w.now]

\* the clean-up both ws.on('close') and ws.on('error') do
CleanUp(w) ==
    LET cs == w.clientState.callSession
        ap == w.clientState.audioProcessor
        hb == w.clientState.heartbeatInterval
        w1 == Abort(w)
        w2 == IF hb # null THEN [w1 EXCEPT !.timers = @ \ {hb}] ELSE w1
        w3 == IF cs # null /\ w2.sessions[cs].state = "ACTIVE"
              THEN [w2 EXCEPT !.sessions[cs] = end(@)] ELSE w2
        w4 == IF ap # null THEN [w3 EXCEPT !.processors[ap] = clearBuffer(@)] ELSE w3
    IN  [w4 EXCEPT !.clients = FALSE]

\* ws.on('close'); clients.get(ws) is undefined once the entry was deleted
onClose(w) ==
    [(IF w.clients THEN CleanUp(w) ELSE w) EXCEPT !.readyState = "CLOSED"]

\* ws.on('error'); the socket is destroyed and 'close' is emitted after it
onError(w) ==
    [(IF w.clients THEN CleanUp(w) ELSE w) EXCEPT !.readyState = "CLOSING"]

----------------------------------------------------------------------------
(* The client and the services: bounds of the model                        *)

MaxStarts == 2          \* call_start messages of the session scenarios
MaxEnds == 1            \* call_end messages of the session scenarios
MaxChunks == 2          \* audio_chunk messages of the session scenarios
MaxCompletes == 2       \* audio_complete messages of the request scenarios
MaxInterrupts == 1      \* interrupt_ai messages of the request scenarios
MaxFailures == 1        \* service calls that throw
StreamChunks == 6       \* audio_chunk messages of the chunk-stream scenarios
LongChunks == 9         \* audio_chunk messages of the long-utterance scenarios
MaxLate == 1            \* chunks of a long utterance delivered out of order
BacklogChunks == 14     \* audio_chunk messages of the backlog scenario
MaxAcks == 2            \* heartbeat_ack messages of the heartbeat scenario
MaxTimerDelay == 1      \* ms by which an interval callback may run late
MaxTime == 20000        \* ms after which the clock of the scenario stops
CapacityChunks == 33    \* audio_chunk messages of the capacity scenario
MaxRun == 12            \* longest run of equal levels in a drawn energy history

\* The client numbers its chunks 0, 1, 2, ... (sequenceNumberRef.current++).
\* A chunk is delivered with its own number or, while env.late allows, with
\* the number offset by one of env.offsets, which gives reordered, duplicate
\* and missing numbers.
SequenceChoices ==
    {env.clock} \cup (IF env.late > 0
                      THEN {Max(0, env.clock + o) : o \in env.offsets}
                      ELSE {})

Receiving == clients /\ readyState = "OPEN"

Spend(field) == env' = [env EXCEPT ![field] = @ - 1]

InSynthesis == {t \in 1..Len(tasks) : tasks[t].pc = "synthesize"}

Ran(op, t) ==
    last' = [op |-> op, task |-> t,
             interruptedInSynthesis |->
                 IF op = "interrupt_ai"
                 THEN last.interruptedInSynthesis \cup InSynthesis
                 ELSE last.interruptedInSynthesis]

CallStart ==
    /\ Receiving /\ env.starts > 0
    /\ Becomes(callStart(World))
    /\ Spend("starts") /\ Ran("call_start", null)

CallEnd ==
    /\ Receiving /\ env.ends > 0
    /\ Becomes(callEnd(World))
    /\ Spend("ends") /\ Ran("call_end", null)

AudioChunk ==
    /\ Receiving /\ env.chunks > 0
    /\ \E name \in env.payloads, sequenceNumber \in SequenceChoices :
          /\ Becomes(audioChunk(World, Payload(name), sequenceNumber, env.clock + 1))
          /\ env' = [env EXCEPT !.chunks = @ - 1, !.clock = @ + 1,
                                !.late = IF sequenceNumber = env.clock THEN @ ELSE @ - 1]
    /\ Ran("audio_chunk", null)

AudioComplete ==
    /\ Receiving /\ env.completes > 0
    /\ \E audioData \in {<<>>, Speech} :
          /\ Becomes(audioComplete(World, Len(abortSignals) + 1, audioData))
          /\ Ran(IF audioData = <<>> THEN "audio_complete_without_audio"
                                     ELSE "audio_complete", null)
    /\ Spend("completes")

\* an audio_chunk message whose audioData is not audio
AudioChunkMalformed ==
    /\ Receiving /\ env.chunks > 0
    /\ Becomes(audioChunk(World, NotAudio, env.clock, env.clock + 1))
    /\ env' = [env EXCEPT !.chunks = @ - 1, !.clock = @ + 1]
    /\ Ran("audio_chunk_malformed", null)

InterruptAI ==
    /\ Receiving /\ env.interrupts > 0
    /\ Becomes(handleAIInterrupt(World))
    /\ Spend("interrupts") /\ Ran("interrupt_ai", null)

CancelProcessing ==
    /\ Receiving /\ env.cancels > 0
    /\ Becomes(handleProcessingCancel(World))
    /\ Spend("cancels") /\ Ran("cancel_processing", null)

\* the 'close' event: the transport closed, or the closing handshake ended
Close ==
    /\ readyState # "CLOSED"
    /\ Becomes(onClose(World))
    /\ UNCHANGED env /\ Ran("close", null)

\* the 'error' event of the socket
TransportError ==
    /\ readyState = "OPEN"
    /\ Becomes(onError(World))
    /\ UNCHANGED env /\ Ran("error", null)

\* the heartbeat messages the client has received
Heartbeats == {i \in 1..Len(sent) : sent[i].type = "heartbeat"}

\* the client acknowledges a heartbeat it has received
HeartbeatAck ==
    /\ Receiving /\ env.acks > 0
    /\ \E i \in Heartbeats \ env.acked :
          env' = [env EXCEPT !.acks = @ - 1, !.acked = @ \cup {i}]
    /\ Becomes(heartbeatAck(World))
    /\ Ran("heartbeat_ack", null)

\* an armed interval that is due runs its callback, possibly late
HeartbeatTimer ==
    \E k \in timers, delay \in 0..MaxTimerDelay :
        /\ due[k] <= now
        /\ Becomes(heartbeatTimer([World EXCEPT !.now = now + delay], k))
        /\ UNCHANGED env /\ Ran("heartbeat_timer", null)

TimeStep == HeartbeatIntervalMs \div 2

\* time passes, up to the next instant at which an interval is due
Advance ==
    /\ now < MaxTime
    /\ \A k \in timers : due[k] > now
    /\ LET instants == {((now \div TimeStep) + 1) * TimeStep} \cup {due[k] : k \in timers}
       IN  now' = CHOOSE t \in instants : \A u \in instants : t <= u
    /\ UNCHANGED <<progVars, due, env>> /\ Ran("advance", null)

AtStage(t, pc) == t \in 1..Len(tasks) /\ tasks[t].pc = pc

TranscribeReturns ==
    \E t \in 1..Len(tasks) :
        /\ AtStage(t, "transcribe")
        /\ Becomes(AfterTranscribe(World, t, Text("transcription", t)))
        /\ UNCHANGED env /\ Ran("transcribed", t)

TranscribeEmpty ==
    \E t \in 1..Len(tasks) :
        /\ AtStage(t, "transcribe")
        /\ \E transcription \in NoMeaningfulTranscription :
              Becomes(AfterTranscribe(World, t, transcription))
        /\ UNCHANGED env /\ Ran("transcribed_nothing", t)

TranscribeFails ==
    \E t \in 1..Len(tasks) :
        /\ AtStage(t, "transcribe") /\ env.failures > 0
        /\ Becomes(Catch(World, t, Text("Failed to transcribe audio", null)))
        /\ Spend("failures") /\ Ran("transcribe_failed", t)

CompleteReturns ==
    \E t \in 1..Len(tasks) :
        /\ AtStage(t, "complete") /\ ~SignalAborted(World, t)
        /\ Becomes(AfterComplete(World, t, Text("response", t)))
        /\ UNCHANGED env /\ Ran("completed", t)

\* the completion call is rejected because its abort signal is set
CompleteAborted ==
    \E t \in 1..Len(tasks) :
        /\ AtStage(t, "complete") /\ SignalAborted(World, t)
        /\ Becomes(Catch(World, t, Text("Request cancelled", null)))
        /\ UNCHANGED env /\ Ran("complete_aborted", t)

CompleteFails ==
    \E t \in 1..Len(tasks) :
        /\ AtStage(t, "complete") /\ env.failures > 0
        /\ Becomes(Catch(World, t, Text("Failed to process with Groq", null)))
        /\ Spend("failures") /\ Ran("complete_failed", t)

SynthesizeReturns ==
    \E t \in 1..Len(tasks) :
        /\ AtStage(t, "synthesize")
        /\ Becomes(AfterSynthesize(World, t, Text("speech", t)))
        /\ UNCHANGED env /\ Ran("synthesized", t)

SynthesizeFails ==
    \E t \in 1..Len(tasks) :
        /\ AtStage(t, "synthesize") /\ env.failures > 0
        /\ Becomes(Catch(World, t, Text("Failed to convert text to speech", null)))
        /\ Spend("failures") /\ Ran("synthesize_failed", t)

Pipeline ==
    \/ TranscribeReturns \/ TranscribeEmpty \/ TranscribeFails
    \/ CompleteReturns \/ CompleteAborted \/ CompleteFails
    \/ SynthesizeReturns \/ SynthesizeFails

InitLast == last = [op |-> "connection", task |-> null, interruptedInSynthesis |-> {}]

\* a client that sends nothing; each scenario says what its client may send
NoClient ==
    [starts |-> 0, ends |-> 0, chunks |-> 0, completes |-> 0, interrupts |-> 0,
     cancels |-> 0, failures |-> 0, late |-> 0, clock |-> 0, offsets |-> {},
     acks |-> 0, acked |-> {},
     payloads |-> PayloadNames]

\* the session life cycle: calls started, ended and torn down while chunks
\* and a submission arrive
Init ==
    /\ InitWorld /\ InitLast
    /\ env = [NoClient EXCEPT !.starts = MaxStarts, !.ends = MaxEnds,
                              !.chunks = MaxChunks, !.completes = 1]

Next ==
    \/ CallStart \/ CallEnd \/ Close \/ TransportError \/ AudioChunk \/ AudioComplete
    \/ TranscribeReturns \/ TranscribeEmpty \/ CompleteReturns \/ SynthesizeReturns

Spec == Init /\ [][Next]_vars

\* one call, overlapping audio_complete submissions, an interrupt and a cancel
InitRequests ==
    /\ InitWorld /\ InitLast
    /\ env = [NoClient EXCEPT !.starts = 1, !.completes = MaxCompletes,
                              !.interrupts = MaxInterrupts, !.cancels = 1,
                              !.failures = MaxFailures]

NextRequests ==
    CallStart \/ AudioComplete \/ InterruptAI \/ CancelProcessing \/ Pipeline

SpecRequests == InitRequests /\ [][NextRequests]_vars

\* one call, overlapping audio_complete submissions whose services answer
InitTurns ==
    /\ InitWorld /\ InitLast
    /\ env = [NoClient EXCEPT !.starts = 1, !.completes = MaxCompletes,
                              !.interrupts = MaxInterrupts]

NextTurns ==
    \/ CallStart \/ AudioComplete \/ InterruptAI
    \/ TranscribeReturns \/ TranscribeEmpty
    \/ CompleteReturns \/ CompleteAborted \/ SynthesizeReturns

SpecTurns == InitTurns /\ [][NextTurns]_vars

\* one call, a stream of chunks delivered out of order
InitStream ==
    /\ InitWorld /\ InitLast
    /\ env = [NoClient EXCEPT !.starts = 1, !.ends = 1, !.chunks = StreamChunks,
                              !.failures = MaxFailures, !.late = StreamChunks,
                              !.offsets = {0 - 2}]

NextStream ==
    \/ CallStart \/ CallEnd \/ AudioChunk
    \/ TranscribeReturns \/ TranscribeEmpty \/ TranscribeFails
    \/ CompleteReturns \/ CompleteFails
    \/ SynthesizeReturns \/ SynthesizeFails

SpecStream == InitStream /\ [][NextStream]_vars

\* one call, a long utterance with few chunks out of order
InitLong ==
    /\ InitWorld /\ InitLast
    /\ env = [NoClient EXCEPT !.starts = 1, !.chunks = LongChunks,
                              !.late = MaxLate, !.offsets = {0 - 2}]

NextLong ==
    \/ CallStart \/ AudioChunk
    \/ TranscribeReturns \/ CompleteReturns \/ SynthesizeReturns

SpecLong == InitLong /\ [][NextLong]_vars

\* one call, a long stretch of silence streamed in order
InitBacklog ==
    /\ InitWorld /\ InitLast
    /\ env = [NoClient EXCEPT !.starts = 1, !.chunks = BacklogChunks,
                              !.payloads = {"silence"}]

SpecBacklog == InitBacklog /\ [][NextLong]_vars

\* one call, silence streamed past the capacity of the buffer while the
\* pipeline of the first flush is in flight, one chunk out of order
InitCapacity ==
    /\ InitWorld /\ InitLast
    /\ env = [NoClient EXCEPT !.starts = 1, !.chunks = CapacityChunks, !.late = 1,
                              !.offsets = {0 - 2}, !.payloads = {"silence"}]

\* the synthesis of the first utterance does not return during the scenario
NextCapacity == CallStart \/ AudioChunk \/ TranscribeReturns \/ CompleteReturns

SpecCapacity == InitCapacity /\ [][NextCapacity]_vars

\* one call whose heartbeats the client acknowledges late or not at all
InitHeartbeat ==
    /\ InitWorld /\ InitLast
    /\ env = [NoClient EXCEPT !.starts = 1, !.ends = 1, !.acks = MaxAcks]

NextHeartbeat ==
    \/ CallStart \/ CallEnd \/ Close \/ TransportError
    \/ HeartbeatAck \/ HeartbeatTimer \/ Advance

SpecHeartbeat == InitHeartbeat /\ [][NextHeartbeat]_vars

\* one call in which some messages arrive without a usable audio payload
InitMalformed ==
    /\ InitWorld /\ InitLast
    /\ env = [NoClient EXCEPT !.starts = 1, !.ends = 1, !.chunks = MaxChunks,
                              !.completes = MaxCompletes]

NextMalformed ==
    \/ CallStart \/ CallEnd \/ AudioChunk \/ AudioChunkMalformed
    \/ AudioComplete
    \/ TranscribeReturns \/ CompleteReturns \/ SynthesizeReturns

SpecMalformed == InitMalformed /\ [][NextMalformed]_vars

\* energy levels earlier chunks can have left in the history: silence, a
\* murmur (0.01), a constant loud chunk (0.5) and an empty chunk (0 / 0)
EnergyLevels == {0, 10 * 1000, 500 * 1000, NaN}

Run(level, n) == [i \in 1..n |-> level]

\* recentEnergyLevels after earlier chunks: a run of one level followed by a
\* run of another, short, or filling the history up to its maximum
Histories ==
    {Run(a, k1) \o Run(b, k2) :
        a \in EnergyLevels, b \in EnergyLevels, k1 \in 0..MaxRun, k2 \in 0..MaxRun}
    \cup {Run(a, maxEnergyHistorySize - k2) \o Run(b, k2) :
            a \in EnergyLevels, b \in EnergyLevels, k2 \in 0..MaxRun}

\* an active call whose processor has classified earlier chunks and is idle
\* with an empty buffer; the next chunk is one of the payloads below
VadPayloadNames == DOMAIN SilentLengths \cup {"murmur", "speech", "loud", "short_loud"}

InitVad ==
    /\ InitLast
    /\ env = [NoClient EXCEPT !.chunks = 1, !.payloads = VadPayloadNames]
    /\ clients = TRUE /\ readyState = "OPEN"
    /\ clientState = [InitialClientState EXCEPT !.callSession = 1,
                                                !.audioProcessor = 1,
                                                !.heartbeatInterval = 1]
    /\ sessions = <<activate(NewCallSession)>>
    /\ \E h \in Histories, active \in BOOLEAN :
          processors = <<[NewAudioStreamProcessor EXCEPT !.recentEnergyLevels = h,
                                                        !.vadActive = active]>>
    /\ abortSignals = <<>> /\ timers = {1} /\ due = <<HeartbeatIntervalMs>> /\ now = 0
    /\ tasks = <<>>
    /\ sent = <<Message("connection_established", null, <<>>),
                Message("call_started", null, [sessionId |-> 1])>>

NextVad == AudioChunk

SpecVad == InitVad /\ [][NextVad]_vars

----------------------------------------------------------------------------
(* Properties                                                              *)

\* the messages a step sends
NewMessages == SubSeq(sent', Len(sent) + 1, Len(sent'))

IsResult(msg) == msg.type \in {"stream_response", "audio_response"}

InFlight == {t \in 1..Len(tasks) : tasks[t].pc # "done"}

\* C1: a result (stream_response / audio_response) is only ever emitted for
\* the requestId that is the connection's current requestId at emission
\* time; the result of a submission superseded by a later one is never sent.
OnlyCurrentResultEmitted ==
    [][\A i \in 1..Len(NewMessages) :
          IsResult(NewMessages[i]) =>
              NewMessages[i].requestId = clientState.currentRequestId]_vars

\* C2: the conversation history is only ever appended to by the pipeline of
\* the request that is current at the time of the append; a superseded or
\* cancelled pipeline appends nothing.
OnlyCurrentRequestAppends ==
    [][\A s \in 1..Len(sessions) :
          sessions'[s].conversationHistory # sessions[s].conversationHistory =>
              /\ last'.task # null
              /\ tasks[last'.task].requestId = clientState.currentRequestId]_vars

\* C3: a request that was in its synthesis stage when an interrupt was
\* handled never gets a result emitted, and every interrupt is acknowledged
\* by exactly one ai_interrupted message.
InterruptSuppressesResult ==
    [][/\ (last'.task # null /\ last'.task \in last'.interruptedInSynthesis) =>
              \A i \in 1..Len(NewMessages) : ~IsResult(NewMessages[i])
       /\ Cardinality({i \in 1..Len(NewMessages) :
                          NewMessages[i].type = "ai_interrupted"})
              = (IF last'.op = "interrupt_ai" THEN 1 ELSE 0)]_vars

\* C4: at any time at most one response pipeline is in flight on the
\* connection, whether started by a flush or by an audio_complete.
AtMostOnePipeline == Cardinality(InFlight) <= 1

\* one call whose chunks carry their own number or none: a missing
\* sequenceNumber is read as 0 (data.sequenceNumber || 0)
InitDuplicates ==
    /\ InitWorld /\ InitLast
    /\ env = [NoClient EXCEPT !.starts = 1, !.chunks = StreamChunks,
                              !.late = StreamChunks, !.offsets = {0 - StreamChunks}]

SpecDuplicates == InitDuplicates /\ [][NextLong]_vars

\* one call with buffered chunks and a submission that the client interrupts
\* and cancels at any point
InitAborts ==
    /\ InitWorld /\ InitLast
    /\ env = [NoClient EXCEPT !.starts = 1, !.chunks = MaxChunks, !.completes = 1,
                              !.interrupts = MaxInterrupts, !.cancels = 1]

NextAborts ==
    \/ CallStart \/ AudioChunk \/ AudioComplete \/ InterruptAI \/ CancelProcessing
    \/ TranscribeReturns \/ CompleteReturns \/ CompleteAborted \/ SynthesizeReturns

SpecAborts == InitAborts /\ [][NextAborts]_vars

\* calls started again and ended while time passes and the intervals run
InitRestart ==
    /\ InitWorld /\ InitLast
    /\ env = [NoClient EXCEPT !.starts = MaxStarts, !.ends = MaxEnds]

NextRestart == CallStart \/ CallEnd \/ Close \/ HeartbeatTimer \/ Advance

SpecRestart == InitRestart /\ [][NextRestart]_vars

\* chunks are told apart by their arrival stamps
Timestamps(chunks) == {chunks[i].timestamp : i \in 1..Len(chunks)}

\* the chunks whose payload has been copied into some utterance
FlushedTimestamps ==
    UNION {{tasks[t].flushed[i] : i \in 1..Len(tasks[t].flushed)} : t \in 1..Len(tasks)}

\* C5: an accepted chunk leaves the chunk buffer only after it was included
\* in the audio of a flushed utterance, or by capacity eviction (more than
\* 30 chunks), or at session end.
NoChunkLost ==
    [][\A p \in 1..Len(processors) :
          LET removed == Timestamps(processors[p].audioChunks)
                             \ Timestamps(processors'[p].audioChunks)
          IN  removed # {} =>
                  \/ removed \subseteq FlushedTimestamps'
                  \/ last'.op \in {"call_end", "close"}
                  \/ /\ last'.op = "audio_chunk"
                     /\ Len(processors[p].audioChunks) >= maxBufferSize]_vars

Ascending(chunks) ==
    \A i, j \in 1..Len(chunks) : i < j => chunks[i].sequence <= chunks[j].sequence

\* file holds each chunk's payload at the offset given by the payloads before it
IsConcatenation(file, chunks) ==
    LET lengths == [i \in 1..Len(chunks) |-> Len(chunks[i].data)]
    IN  /\ Len(file) = SumSeq(lengths)
        /\ \A i \in 1..Len(chunks) :
              LET offset == SumRange(lengths, 1, i - 1)
              IN  SubSeq(file, offset + 1, offset + lengths[i]) = chunks[i].data

Unflushed(p) ==
    {i \in 1..Len(processors[p].audioChunks) :
        processors[p].audioChunks[i].timestamp \notin FlushedTimestamps}

\* C7: no chunk is flushed twice, and a buffer never holds more than the high
\* watermark (8) of chunks that have not been flushed.
BoundedBacklog ==
    /\ \A p \in 1..Len(processors) : Cardinality(Unflushed(p)) <= 8
    /\ \A t, u \in 1..Len(tasks) :
          t # u => \A i \in 1..Len(tasks[t].flushed), j \in 1..Len(tasks[u].flushed) :
                       tasks[t].flushed[i] # tasks[u].flushed[j]

\* the flush rule as the specification states it
ShouldFlush(count, silence) == (count >= 5 /\ silence) \/ count >= 8

\* C8: when the segmenter processes a chunk it flushes if and only if
\* (count >= 5 and the VAD state after classification is SILENCE) or
\* count >= 8; with fewer than 5 buffered chunks it never flushes.
FlushRule ==
    [][(/\ last'.op = "audio_chunk"
        /\ SessionActive(World)
        /\ clientState.audioProcessor # null
        /\ ~processors[clientState.audioProcessor].isProcessing) =>
          LET p == clientState.audioProcessor
              count == Len(processors'[p].audioChunks)
              silence == ~processors'[p].vadActive
              flushed == Len(tasks') > Len(tasks)
          IN  /\ count = Len(processors[p].audioChunks) + 1
              /\ flushed <=> ShouldFlush(count, silence)
              /\ count < 5 => ~flushed
              /\ flushed => Len(tasks'[Len(tasks')].flushed) = count]_vars

\* C8 witness: a flush forced by the eighth chunk while the VAD state is SPEECH
ForcedFlushDuringSpeech ==
    /\ last.op = "audio_chunk"
    /\ Len(tasks) > 0
    /\ tasks[Len(tasks)].pc = "transcribe"
    /\ Len(tasks[Len(tasks)].flushed) >= 8
    /\ processors[tasks[Len(tasks)].proc].vadActive

NoChunkAfterEnd ==
    /\ [][(last'.op = "audio_chunk" /\ ~SessionActive(World)) =>
             UNCHANGED progVars]_vars
    /\ [](~SessionActive(World) =>
             \A p \in 1..Len(processors) :
                 processAudioForTranscription(World, p) = World)

\* C10 witness: a chunk arrived after call_end while a buffer still held chunks
ChunkAfterEnd ==
    /\ last.op = "audio_chunk"
    /\ clientState.callSession # null
    /\ sessions[clientState.callSession].state = "ENDING"
    /\ \E p \in 1..Len(processors) : Len(processors[p].audioChunks) > 0

\* a heartbeat the client has not acknowledged, sent at least the timeout ago
OverdueHeartbeats(at) ==
    {i \in Heartbeats \ env.acked : at - sent[i].body.timestamp >= HeartbeatTimeoutMs}

\* C11: a heartbeat timer that finds no heartbeat_ack for more than 10 s
\* closes the connection, the close leaves the session ENDING, and the
\* heartbeat timer closes the connection only if some heartbeat has gone
\* unacknowledged for 10 s.
HeartbeatTimeout ==
    [][/\ (/\ last'.op = "heartbeat_timer"
           /\ readyState = "OPEN"
           /\ now' - clientState.lastHeartbeat > HeartbeatTimeoutMs) =>
              readyState' = "CLOSING"
       /\ (last'.op = "close" /\ clientState.callSession # null) =>
              sessions'[clientState.callSession].state = "ENDING"
       /\ (last'.op = "heartbeat_timer" /\ readyState' # readyState) =>
              OverdueHeartbeats(now') # {}]_vars

\* C12: after the connection is lost (close or error event, also the close
\* that follows a heartbeat timeout) the session, if it was ACTIVE, is
\* ENDING, the chunk buffer is empty, the abort signal of the current
\* request is set, no heartbeat timer is armed and the registry entry is gone.
ConnectionLossCleansUp ==
    [][(last'.op \in {"close", "error"} /\ clients) =>
          LET cs == clientState.callSession
              ap == clientState.audioProcessor
              ac == clientState.abortController
          IN  /\ cs # null => sessions'[cs].state = "ENDING"
              /\ ap # null => /\ processors'[ap].audioChunks = <<>>
                              /\ ~processors'[ap].isProcessing
              /\ ac # null => abortSignals'[ac]
              /\ timers' = {}
              /\ ~clients']_vars

\* C13: when transcription returns empty text or the 'No speech detected'
\* sentinel, the canned exchange is appended to the history, the completion
\* service is not invoked, and when synthesis returns a response event (not
\* an error event) carrying the canned texts is emitted.
FallbackExchange ==
    /\ [](\A t \in 1..Len(tasks) :
             tasks[t].pc = "complete" =>
                 tasks[t].transcription \notin
                     NoMeaningfulTranscription \cup {FallbackTranscription})
    /\ [][last'.op = "transcribed_nothing" =>
             LET cs == clientState.callSession
             IN  /\ sessions'[cs].conversationHistory =
                        sessions[cs].conversationHistory \o
                            <<[role |-> "user", content |-> FallbackTranscription],
                              [role |-> "assistant", content |-> FallbackResponse]>>
                 /\ tasks'[last'.task].pc = "synthesize"
                 /\ NewMessages = <<>>]_vars
    /\ [][(/\ last'.op = "synthesized"
           /\ tasks[last'.task].transcription = FallbackTranscription
           /\ readyState = "OPEN") =>
             /\ Len(NewMessages) = 1
             /\ IsResult(NewMessages[1])
             /\ NewMessages[1].requestId = tasks[last'.task].requestId
             /\ NewMessages[1].body.transcription = FallbackTranscription
             /\ NewMessages[1].body.response = FallbackResponse]_vars

\* C13 witness: the canned reply of a fallback turn was sent as a response
FallbackResponseSent ==
    \E i \in 1..Len(sent) :
        IsResult(sent[i]) /\ sent[i].body.response = FallbackResponse


\* the error events of the two pipelines
IsError(msg) == msg.type \in {"stream_error", "audio_error"}

\* C14: when speech synthesis fails for a turn whose transcription and
\* completion succeeded, the step emits one response event that carries the
\* transcription and the reply text without audio, and no error event.
SynthesisFailureDegrades ==
    [][(/\ last'.op = "synthesize_failed" /\ readyState = "OPEN"
        /\ tasks[last'.task].response # FallbackResponse) =>
          /\ Len(NewMessages) = 1
          /\ IsResult(NewMessages[1])
          /\ NewMessages[1].requestId = tasks[last'.task].requestId
          /\ NewMessages[1].body.transcription = tasks[last'.task].transcription
          /\ NewMessages[1].body.response = tasks[last'.task].response
          /\ NewMessages[1].body.speechAudio = null]_vars


\* a step in which transcription or completion of task last'.task failed
StageFailed == last'.op \in {"transcribe_failed", "complete_failed"}

\* C15: when transcription or completion fails for the connection's current
\* request, the step emits exactly one error event tagged with the request's
\* requestId and no response event, resets currentRequestId, isProcessing
\* and the abort controller, and leaves the session ACTIVE.
FailureResetsRequest ==
    [][(/\ StageFailed /\ readyState = "OPEN"
        /\ tasks[last'.task].kind = "complete"
        /\ clientState.currentRequestId = tasks[last'.task].requestId) =>
          /\ Len(NewMessages) = 1
          /\ IsError(NewMessages[1])
          /\ NewMessages[1].requestId = tasks[last'.task].requestId
          /\ clientState'.currentRequestId = null
          /\ clientState'.isProcessing = FALSE
          /\ clientState'.abortController = null
          /\ sessions'[clientState'.callSession].state = "ACTIVE"]_vars


\* C16: a request aborted by interrupt_ai or cancel_processing while its
\* completion call is in flight is discarded silently: the interrupt (cancel)
\* step sends only its ai_interrupted (processing_cancelled) acknowledgment,
\* and the step in which the aborted call returns sends nothing, in
\* particular no stream_error / audio_error.
CancellationIsSilent ==
    [][/\ last'.op = "interrupt_ai" =>
            /\ Len(NewMessages) = 1 /\ NewMessages[1].type = "ai_interrupted"
       /\ last'.op = "cancel_processing" =>
            /\ Len(NewMessages) = 1 /\ NewMessages[1].type = "processing_cancelled"
       /\ last'.op = "complete_aborted" => Len(NewMessages) = 0]_vars


\* C17: an audio_complete message without audio payload, or an audio_chunk
\* whose payload is not audio, received during an active call is answered by
\* one error event (tagged with the requestId of the submission), starts no
\* pipeline and leaves history and buffer unchanged.
MalformedInputReported ==
    [][(/\ last'.op \in {"audio_complete_without_audio", "audio_chunk_malformed"}
        /\ SessionActive(World) /\ readyState = "OPEN") =>
          /\ Len(NewMessages) = 1
          /\ NewMessages[1].type \in {"error", "audio_error", "stream_error"}
          /\ last'.op = "audio_complete_without_audio" =>
                NewMessages[1].requestId = clientState'.currentRequestId
          /\ tasks' = tasks
          /\ sessions' = sessions
          /\ processors' = processors]_vars


\* the world in which the remaining stages of task t all succeed
SucceedFrom(w, t) ==
    IF w.tasks[t].pc = "transcribe"
    THEN AfterSynthesize(AfterComplete(AfterTranscribe(w, t, Text("transcription", t)),
                                       t, Text("response", t)), t, Text("speech", t))
    ELSE IF w.tasks[t].pc = "complete"
    THEN AfterSynthesize(AfterComplete(w, t, Text("response", t)), t, Text("speech", t))
    ELSE AfterSynthesize(w, t, Text("speech", t))

\* what the next chunk does to the processors, the pipelines it starts and
\* the messages it causes
ChunkOutcome(w, name, sequenceNumber) ==
    LET v == audioChunk(w, Payload(name), sequenceNumber, env.clock + 1)
    IN  [processors |-> v.processors,
         started |-> SubSeq(v.tasks, Len(w.tasks) + 1, Len(v.tasks)),
         messages |-> SubSeq(v.sent, Len(w.sent) + 1, Len(v.sent))]

PipelineFailed ==
    last'.op \in {"transcribe_failed", "complete_failed", "synthesize_failed"}

\* C18: a step in which the streamed pipeline fails (at transcription,
\* completion or synthesis) leaves the processor not processing, with the
\* VAD energy history and speaking state untouched, in exactly the state a
\* successful end of that pipeline leaves it in, and the next chunk, whatever
\* it is, is buffered, classified and flushed as after the successful end.
FailureIsolation ==
    [][(PipelineFailed /\ tasks[last'.task].kind = "stream") =>
          LET p == tasks[last'.task].proc
              ok == SucceedFrom(World, last'.task)
          IN  /\ ~processors'[p].isProcessing
              /\ processors'[p].recentEnergyLevels = processors[p].recentEnergyLevels
              /\ processors'[p].vadActive = processors[p].vadActive
              /\ processors' = ok.processors
              /\ clientState' = ok.clientState
              /\ readyState' = ok.readyState
              /\ \A s \in 1..Len(sessions) : sessions'[s].state = ok.sessions[s].state
              /\ \A name \in env.payloads,
                    sequenceNumber \in {Max(0, env.clock + o) : o \in env.offsets \cup {0}} :
                    ChunkOutcome(World', name, sequenceNumber)
                        = ChunkOutcome(ok, name, sequenceNumber)]_vars

\* a chunk was classified after a streamed pipeline had failed
ChunkAfterFailure ==
    \E i, j \in 1..Len(sent) :
        /\ i < j
        /\ sent[i].type = "stream_error"
        /\ sent[j].type = "vad_status"


\* every sample of the buffer is the midpoint value
IsSilent(audioData) == \A i \in 1..Len(audioData) : audioData[i] = centerValue

\* the chunk the step has received and classified
ClassifiedChunk == processors'[1].audioChunks[Len(processors'[1].audioChunks)].data

ChunkClassified ==
    /\ last'.op = "audio_chunk"
    /\ Len(NewMessages) > 0 /\ NewMessages[1].type = "vad_status"

\* C19: a chunk whose samples all equal the midpoint 128 is classified as
\* non-speech, whatever its length and whatever the energy history (shorter
\* than the ten levels the dynamic threshold needs, or longer).
SilentChunkIsNotSpeech ==
    [][(ChunkClassified /\ IsSilent(ClassifiedChunk)) =>
          /\ ~processors'[1].vadActive
          /\ ~NewMessages[1].body.isSpeaking]_vars

\* a silent chunk was classified with the dynamic threshold in force
SilentChunkClassified ==
    /\ last.op = "audio_chunk"
    /\ Len(processors[1].audioChunks) = 1
    /\ IsSilent(processors[1].audioChunks[1].data)
    /\ Len(processors[1].audioChunks[1].data) >= MinAnalysisSamples
    /\ Len(processors[1].recentEnergyLevels) > MinThresholdSamples
    /\ sent[Len(sent)].type = "vad_status"

\* nine levels of 0.01 followed by one of 0.5
SpikeHistory == Run(10 * 1000, 9) \o Run(500 * 1000, 1)

\* C20: with an energy history of nine levels 0.01 and then one level 0.5,
\* the next chunk of RMS energy 0.01 is classified as non-speech.
QuietChunkAfterSpike ==
    [][(/\ ChunkClassified
        /\ processors[1].recentEnergyLevels = SpikeHistory
        /\ NewMessages[1].body.audioLevel = 10 * 1000) =>
          ~processors'[1].vadActive]_vars

\* the first n chunks of the watermark scenario, as the buffer holds them:
\* delivered in sequence order, the first five of them silent
ScenarioBuffer(chunks) ==
    /\ \A i \in 1..Len(chunks) :
          chunks[i].sequence = i - 1 /\ chunks[i].timestamp = i
    /\ \A i \in 1..Min(5, Len(chunks)) : chunks[i].data = Silence

\* C21: from call_start with an empty buffer, six chunks delivered in order,
\* the first five silent: the steps that receive chunks 1 to 5 start no
\* flush, and the step that receives chunk 6 starts the one and only flush.
WatermarkScenario ==
    [][(/\ last'.op = "audio_chunk"
        /\ env'.clock <= 6
        /\ Len(processors) = 1
        /\ Len(processors'[1].audioChunks) = env'.clock
        /\ ScenarioBuffer(processors'[1].audioChunks)) =>
          /\ env'.clock < 6 => tasks' = <<>>
          /\ env'.clock = 6 => Len(tasks) = 0 /\ Len(tasks') = 1]_vars

\* the chunks of a buffer as pairs of sequence number and arrival stamp
Keys(chunks) == {<<chunks[i].sequence, chunks[i].timestamp>> : i \in 1..Len(chunks)}

\* kept are the highest-sequence elements of all, at most maxBufferSize
HighestKept(all, kept) ==
    /\ kept \subseteq all
    /\ Cardinality(kept) = Min(maxBufferSize, Cardinality(all))
    /\ \A e \in all \ kept, r \in kept : e[1] <= r[1]

\* C22: a buffer never holds more than 30 chunks; after an addChunk it holds
\* the 30 highest-sequence chunks of the old buffer and the new chunk
\* together (all of them when they are at most 30), so what is evicted has
\* the lowest sequence numbers.
BufferCapacity ==
    /\ [](\A p \in 1..Len(processors) : Len(processors[p].audioChunks) <= maxBufferSize)
    /\ [][(/\ last'.op = "audio_chunk"
           /\ SessionActive(World)
           /\ clientState.audioProcessor # null) =>
             LET p == clientState.audioProcessor
             IN  \E sequenceNumber \in SequenceChoices :
                    HighestKept(Keys(processors[p].audioChunks)
                                    \cup {<<sequenceNumber, env.clock + 1>>},
                                Keys(processors'[p].audioChunks))]_vars

\* C22 witness: chunks were evicted from a full buffer that had received a
\* chunk out of order
EvictedFromFullBuffer ==
    /\ last.op = "audio_chunk"
    /\ Len(processors) = 1
    /\ Len(processors[1].audioChunks) = maxBufferSize
    /\ env.clock >= maxBufferSize + 2
    /\ env.late = 0
    /\ Len(tasks) = 1

\* C23: the step that emits the result of a request resets the current-
\* request tracking (currentRequestId cleared, isProcessing false) when the
\* request is still the current one, and leaves the tracking as it is when a
\* newer request has become current.
ResultResetsTracking ==
    [][(/\ last'.op = "synthesized"
        /\ tasks[last'.task].kind = "complete"
        /\ \E i \in 1..Len(NewMessages) : IsResult(NewMessages[i])) =>
          IF clientState.currentRequestId = tasks[last'.task].requestId
          THEN /\ clientState'.currentRequestId = null
               /\ clientState'.isProcessing = FALSE
          ELSE /\ clientState'.currentRequestId = clientState.currentRequestId
               /\ clientState'.isProcessing = clientState.isProcessing
               /\ clientState'.abortController = clientState.abortController]_vars

\* the chunk an audio_chunk step has put into buffer chunks: the one with
\* the newest arrival stamp
Arrived(chunks) == chunks[CHOOSE i \in 1..Len(chunks) : chunks[i].timestamp = env'.clock]

VadReports == {i \in 1..Len(NewMessages) : NewMessages[i].type = "vad_status"}

\* C24: the step that accepts an audio_chunk during an ACTIVE session
\* classifies that chunk, once: it appends the chunk's own RMS energy to the
\* energy history and sends one vad_status carrying it, also when the chunk
\* arrives out of sequence order or while a pipeline is in flight.
ClassifiedOnArrival ==
    [][(/\ last'.op = "audio_chunk"
        /\ SessionActive(World)
        /\ clientState.audioProcessor # null
        /\ readyState = "OPEN") =>
          LET p == clientState.audioProcessor
              rms == AnalysisOf(Arrived(processors'[p].audioChunks).data).rms
          IN  /\ Cardinality(VadReports) = 1
              /\ \A i \in VadReports : NewMessages[i].body.audioLevel = rms
              /\ processors'[p].recentEnergyLevels
                    = PushEnergy(processors[p].recentEnergyLevels, rms)]_vars

\* the vad_status message of a classification step
VadStatus == NewMessages[1].body

\* the voice confidence of the chunk the step classified
ClassifiedConfidence == AnalysisOf(ClassifiedChunk).freqAnalysis.voiceConfidence

\* C25: a chunk is declared speech if and only if (energy > threshold and
\* confidence > 0.2) or (energy > 0.7 x threshold and confidence > 0.5), with
\* the threshold reported for the chunk (no comparison with NaN is true); so
\* energy at or below 70% of the threshold is never speech.
TwoPathRule ==
    [][ChunkClassified =>
          LET rms == VadStatus.audioLevel
              threshold == VadStatus.threshold
              comparable == rms # NaN /\ threshold # NaN
              above == comparable /\ rms > threshold
              nearly == comparable /\ 10 * rms > 7 * threshold
          IN  /\ VadStatus.isSpeaking = processors'[1].vadActive
              /\ VadStatus.isSpeaking <=>
                    \/ above /\ ClassifiedConfidence > 200000
                    \/ nearly /\ ClassifiedConfidence > 500000
              /\ (comparable /\ 10 * rms <= 7 * threshold) => ~VadStatus.isSpeaking]_vars

\* C25 witness: a chunk declared speech on the second path alone, its energy
\* not above the threshold
SpeechBelowThreshold ==
    /\ last.op = "audio_chunk"
    /\ sent[Len(sent)].type = "vad_status"
    /\ sent[Len(sent)].body.isSpeaking
    /\ sent[Len(sent)].body.audioLevel <= sent[Len(sent)].body.threshold

\* C26: a chunk of fewer than 100 samples is classified as non-speech, with
\* voice confidence 0, whatever its samples (however loud) and whatever the
\* energy history.
ShortChunkIsNotSpeech ==
    [][(ChunkClassified /\ Len(ClassifiedChunk) < 100) =>
          /\ AnalysisOf(ClassifiedChunk).freqAnalysis.voiceConfidence = 0
          /\ ~AnalysisOf(ClassifiedChunk).freqAnalysis.isLikelyVoice
          /\ ~VadStatus.isSpeaking
          /\ ~processors'[1].vadActive]_vars

\* C26 witness: a short chunk louder than the threshold was classified
ShortLoudChunkClassified ==
    /\ last.op = "audio_chunk"
    /\ Len(processors[1].audioChunks) = 1
    /\ Len(processors[1].audioChunks[1].data) < 100
    /\ sent[Len(sent)].type = "vad_status"
    /\ sent[Len(sent)].body.threshold # NaN
    /\ sent[Len(sent)].body.audioLevel > sent[Len(sent)].body.threshold
    /\ Len(processors[1].recentEnergyLevels) > MinThresholdSamples

\* the element at 0-based index k of the ascending order of levels
Percentile(levels, k) ==
    CHOOSE v \in {levels[i] : i \in 1..Len(levels)} :
        /\ Cardinality({i \in 1..Len(levels) : levels[i] < v}) <= k
        /\ Cardinality({i \in 1..Len(levels) : levels[i] <= v}) > k

\* noiseFloor + 0.5 x (median - noiseFloor), clamped to [0.003, 0.02]
ClampedThreshold(levels) ==
    LET noiseFloor == Percentile(levels, Len(levels) \div 4)
        median == Percentile(levels, Len(levels) \div 2)
    IN  Max(3000, Min(20000, noiseFloor + (median - noiseFloor) \div 2))

HasNaN(levels) == \E i \in 1..Len(levels) : levels[i] = NaN

\* C27: the threshold of a classification is 0.05 while the energy history
\* (the chunk's own energy included) holds fewer than 10 samples; with 10 or
\* more it is noiseFloor + 0.5 x (median - noiseFloor) clamped to
\* [0.003, 0.02], and so every reported threshold is 0.05 or within
\* [0.003, 0.02].
ThresholdInBand ==
    [][ChunkClassified =>
          LET levels == processors'[1].recentEnergyLevels
          IN  /\ Len(levels) < 10 => VadStatus.threshold = 50000
              /\ Len(levels) >= 10 =>
                    /\ VadStatus.threshold >= 3000
                    /\ VadStatus.threshold <= 20000
                    /\ ~HasNaN(levels) =>
                          VadStatus.threshold = ClampedThreshold(levels)]_vars

\* the same for histories in which every energy is a number
ThresholdInBandOfNumbers ==
    [][(ChunkClassified /\ ~HasNaN(processors'[1].recentEnergyLevels)) =>
          LET levels == processors'[1].recentEnergyLevels
          IN  IF Len(levels) < 10 THEN VadStatus.threshold = 50000
              ELSE /\ VadStatus.threshold = ClampedThreshold(levels)
                   /\ VadStatus.threshold \in 3000..20000]_vars

\* C28: the energy history never holds more than 50 samples; a
\* classification appends the chunk's energy as the newest sample and, when
\* that would make 51, drops the oldest, and no other step changes it.
RollingEnergyHistory ==
    /\ [](\A p \in 1..Len(processors) : Len(processors[p].recentEnergyLevels) <= 50)
    /\ [][LET before == processors[1].recentEnergyLevels
              after == processors'[1].recentEnergyLevels
          IN  IF ChunkClassified
              THEN after = IF Len(before) < 50
                           THEN Append(before, VadStatus.audioLevel)
                           ELSE Append(Tail(before), VadStatus.audioLevel)
              ELSE after = before]_vars

\* C28 witness: a classification on a full history, whose oldest sample went
FullHistoryShifted ==
    /\ last.op = "audio_chunk"
    /\ sent[Len(sent)].type = "vad_status"
    /\ Len(processors[1].recentEnergyLevels) = 50
    /\ processors[1].recentEnergyLevels[50] = sent[Len(sent)].body.audioLevel
    /\ processors[1].recentEnergyLevels[49] # processors[1].recentEnergyLevels[50]

\* the conversation history of the connection's session
History(ss, cs) == ss[cs.callSession].conversationHistory

\* C29: in a normal turn the step in which transcription returns appends the
\* user utterance and invokes completion with the system prompt followed by
\* the whole history, the new utterance last, sending no result; the step in
\* which completion returns appends the reply and starts synthesis, sending
\* no result; a result is sent only by the step in which synthesis returns.
StagesInOrder ==
    [][/\ last'.op = "transcribed" =>
            LET t == last'.task
                utterance == [role |-> "user", content |-> tasks'[t].transcription]
            IN  /\ tasks[t].pc = "transcribe" /\ tasks'[t].pc = "complete"
                /\ History(sessions', clientState') =
                       Append(History(sessions, clientState), utterance)
                /\ tasks'[t].context =
                       <<[role |-> "system", content |-> SystemPrompt]>>
                           \o History(sessions', clientState')
                /\ NewMessages = <<>>
       /\ last'.op = "completed" =>
            LET t == last'.task
                reply == [role |-> "assistant", content |-> tasks'[t].response]
            IN  /\ tasks[t].pc = "complete" /\ tasks'[t].pc = "synthesize"
                /\ History(sessions', clientState') =
                       Append(History(sessions, clientState), reply)
                /\ NewMessages = <<>>
       /\ (\E i \in 1..Len(NewMessages) : IsResult(NewMessages[i])) =>
            /\ last'.op = "synthesized"
            /\ tasks[last'.task].pc = "synthesize"
            /\ NewMessages[1].body.transcription = tasks[last'.task].transcription
            /\ NewMessages[1].body.response = tasks[last'.task].response]_vars

\* C29 witness: the result of a second turn, whose completion was given the
\* first turn's exchange before the new utterance, has been sent
SecondTurnAnswered ==
    \E t \in 1..Len(tasks), i \in 1..Len(sent) :
        /\ tasks[t].pc = "done"
        /\ Len(tasks[t].context) >= 4
        /\ tasks[t].context[Len(tasks[t].context)].content = tasks[t].transcription
        /\ IsResult(sent[i])
        /\ sent[i].requestId = tasks[t].requestId
        /\ sent[i].body.response = tasks[t].response

\* the session that was the connection's session when task t started: call_start
\* creates session k together with processor k, and a pipeline is started by
\* the processor of the current call
SessionAtStart(t) == tasks[t].proc

\* C30: a step of a pipeline appends messages only to the history of the
\* session that was the connection's session when the pipeline started,
\* also when a later call_start has replaced the connection's session.
HistoryNotShared ==
    [][last'.op \in {"transcribed", "transcribed_nothing", "completed"} =>
          \A s \in 1..Len(sessions) :
              s # SessionAtStart(last'.task) =>
                  sessions'[s].conversationHistory = sessions[s].conversationHistory]_vars

\* chunks with equal sequence numbers stand in the order of their arrival
EqualInArrivalOrder(chunks) ==
    \A i, j \in 1..Len(chunks) :
        i < j /\ chunks[i].sequence = chunks[j].sequence =>
            chunks[i].timestamp < chunks[j].timestamp

\* C31: chunks with equal sequence numbers (a missing number is read as 0)
\* are tolerated: a chunk accepted while fewer than 30 chunks are buffered
\* is in the buffer after addChunk, chunks with equal numbers stay in
\* arrival order in the buffer, and a flush copies the buffer in that order.
DuplicatesTolerated ==
    /\ [](\A p \in 1..Len(processors) :
             /\ Ascending(processors[p].audioChunks)
             /\ EqualInArrivalOrder(processors[p].audioChunks))
    /\ [][last'.op = "audio_chunk" /\ SessionActive(World)
              /\ clientState.audioProcessor # null =>
             LET p == clientState.audioProcessor
             IN  /\ Len(processors[p].audioChunks) < maxBufferSize =>
                       /\ env'.clock \in Timestamps(processors'[p].audioChunks)
                       /\ Len(processors'[p].audioChunks)
                              = Len(processors[p].audioChunks) + 1
                 /\ Len(tasks') > Len(tasks) =>
                       LET task == tasks'[Len(tasks')]
                       IN  /\ task.flushed
                                 = [i \in 1..Len(processors'[p].audioChunks) |->
                                      processors'[p].audioChunks[i].timestamp]
                           /\ IsConcatenation(task.file, processors'[p].audioChunks)]_vars

\* C31 witness: an utterance of five or more chunks that all carry the
\* sequence number 0 has been flushed and is with the transcription service
DuplicatesFlushed ==
    \E t \in 1..Len(tasks) :
        LET chunks == processors[tasks[t].proc].audioChunks
        IN  /\ tasks[t].kind = "stream" /\ tasks[t].pc = "transcribe"
            /\ Len(chunks) >= LowWatermark
            /\ Len(tasks[t].flushed) = Len(chunks)
            /\ \A i \in 1..Len(chunks) : chunks[i].sequence = 0

\* C32: once a session is ENDING, its conversation history is not appended
\* to any more, and no stream_response or audio_response is sent for a
\* pipeline that was started under it, also when the pipeline was in flight
\* when the session ended.
EndedSessionIsQuiet ==
    [][\A s \in 1..Len(sessions) :
          sessions[s].state = "ENDING" =>
              /\ sessions'[s].conversationHistory = sessions[s].conversationHistory
              /\ (last'.task # null /\ SessionAtStart(last'.task) = s) =>
                     \A i \in 1..Len(NewMessages) : ~IsResult(NewMessages[i])]_vars

\* the messages of the given types sent so far
CountSent(types) == Cardinality({i \in 1..Len(sent) : sent[i].type \in types})

StreamTasks == {t \in 1..Len(tasks) : tasks[t].kind = "stream"}

\* C33: on an open connection every flush of the chunk buffer sends
\* processing_started when it starts and exactly one message, a
\* stream_response or a stream_error, when its pipeline ends, and nothing in
\* between; when the pipeline ends the chunk buffer is empty, the temporary
\* file is removed and the processor is not processing.
FlushLifecycle ==
    /\ [](readyState = "OPEN" =>
             /\ CountSent({"processing_started"}) = Cardinality(StreamTasks)
             /\ CountSent({"stream_response", "stream_error"})
                    = Cardinality({t \in StreamTasks : tasks[t].pc = "done"}))
    /\ [][readyState = "OPEN" /\ readyState' = "OPEN" =>
             /\ \A t \in StreamTasks : tasks[t].pc = "done" => tasks'[t] = tasks[t]
             /\ \A t \in StreamTasks' \ StreamTasks :
                    /\ NewMessages # <<>>
                    /\ NewMessages[Len(NewMessages)].type = "processing_started"
                    /\ tasks'[t].pc = "transcribe" /\ tasks'[t].file # <<>>
                    /\ processors'[tasks'[t].proc].isProcessing
             /\ \A t \in StreamTasks :
                    tasks'[t] # tasks[t] =>
                        IF tasks'[t].pc = "done"
                        THEN /\ Len(NewMessages) = 1
                             /\ NewMessages[1].type \in {"stream_response", "stream_error"}
                             /\ processors'[tasks[t].proc].audioChunks = <<>>
                             /\ ~processors'[tasks[t].proc].isProcessing
                             /\ tasks'[t].file = <<>>
                        ELSE /\ NewMessages = <<>>
                             /\ tasks'[t].file = tasks[t].file]_vars

\* C33 witness: the pipeline of a flush has ended with stream_error after a
\* failed synthesis, while a chunk that arrived during the pipeline was
\* waiting in the buffer
FlushEndedInError ==
    /\ last.op = "synthesize_failed"
    /\ tasks[last.task].kind = "stream" /\ tasks[last.task].pc = "done"
    /\ Len(tasks[last.task].flushed) < env.clock
    /\ readyState = "OPEN"
    /\ sent[Len(sent)].type = "stream_error"
    /\ CountSent({"processing_started"}) = 1

\* C34: interrupt_ai and cancel_processing, handled in any state, set the
\* abort signal of the current abort controller if there is one and of no
\* other, leave currentRequestId and abortController null and isProcessing
\* false, send exactly one message (ai_interrupted, processing_cancelled),
\* and change neither the sessions with their histories nor the processors
\* with their chunk buffers and energy histories.
AbortFrame ==
    [][last'.op \in {"interrupt_ai", "cancel_processing"} =>
          /\ Len(abortSignals') = Len(abortSignals)
          /\ \A a \in 1..Len(abortSignals) :
                abortSignals'[a] = (abortSignals[a] \/ a = clientState.abortController)
          /\ clientState'.currentRequestId = null
          /\ clientState'.abortController = null
          /\ ~clientState'.isProcessing
          /\ Len(NewMessages) = 1
          /\ NewMessages[1].type = (IF last'.op = "interrupt_ai"
                                    THEN "ai_interrupted" ELSE "processing_cancelled")
          /\ clientState'.callSession = clientState.callSession
          /\ clientState'.audioProcessor = clientState.audioProcessor
          /\ sessions' = sessions
          /\ processors' = processors]_vars

\* C34 witness: after an interruption sent while no request was running, a
\* cancellation has aborted the running submission of a call whose session
\* has a history and whose processor has buffered chunks and energy levels
CancelledAfterInterrupt ==
    /\ last.op = "cancel_processing"
    /\ \E i, j \in 1..Len(sent) :
          i < j /\ sent[i].type = "ai_interrupted" /\ sent[j].type = "processing_started"
    /\ \E t \in 1..Len(tasks) :
          /\ tasks[t].pc = "complete" /\ tasks[t].signal # null
          /\ abortSignals[tasks[t].signal]
    /\ clientState.callSession # null /\ clientState.audioProcessor # null
    /\ sessions[clientState.callSession].conversationHistory # <<>>
    /\ processors[clientState.audioProcessor].audioChunks # <<>>
    /\ processors[clientState.audioProcessor].recentEnergyLevels # <<>>

\* the connection is registered and its session is ACTIVE
InActiveCall ==
    /\ clients /\ clientState.callSession # null
    /\ sessions[clientState.callSession].state = "ACTIVE"

\* C35: at most one heartbeat interval is armed at any time, whatever
\* call_start and call_end messages arrive, none is armed outside an active
\* call (after call_end, after the connection closed), and so an interval's
\* callback, which sends heartbeat or closes the connection, runs only
\* during an active call.
SingleHeartbeatTimer ==
    /\ [](Cardinality(timers) <= 1)
    /\ [](~InActiveCall => timers = {})
    /\ [][last'.op = "heartbeat_timer" => InActiveCall]_vars

\* C36: in every state the conversation history of every session
\* alternates user, assistant, beginning with user, and it ends with a user
\* entry only while the completion of that turn is pending.
AlternatingHistory ==
    \A s \in 1..Len(sessions) :
        LET history == sessions[s].conversationHistory
        IN  /\ \A i \in 1..Len(history) :
                  history[i].role = (IF i % 2 = 1 THEN "user" ELSE "assistant")
            /\ Len(history) % 2 = 1 =>
                  \E t \in 1..Len(tasks) :
                      tasks[t].pc = "complete" /\ SessionAtStart(t) = s

====
